---- MODULE Spec2Model ----
(***************************************************************************)
(* A model of pymuonsuite's ChargeDistribution (calculate/uep/charged.py): *)
(* the constructor that builds the reciprocal-space fields from a density  *)
(* grid, a structure and a pseudopotential table, and the evaluators rho,  *)
(* V, dV, d2V and Hfine; and of load_input_file (schemas.py), under its    *)
(* own specification SpecLoad.                                             *)
(*                                                                         *)
(* Arithmetic is exact.  The lattice is cubic with side L; lengths of      *)
(* points are in units of L/4, so that every plane wave exp(i G.r) is a    *)
(* power of the imaginary unit; G vectors are stored as integer frequency  *)
(* triples f, standing for G = (2 pi / L) f.  Complex numbers are pairs    *)
(* <<re, im>> of integers over a denominator kept beside the field.        *)
(***************************************************************************)
EXTENDS Integers, Sequences, FiniteSets, TLC

VARIABLES inp, st, eng, err, call, res, out, fs

vars == <<inp, st, eng, err, call, res, out, fs>>

(* ------------------------------------------------------------------ *)
(* bounds of the model                                                *)
(* ------------------------------------------------------------------ *)
MaxPts == 2
MaxB == 3

\* the longest grid axis for which fftfreq is compared with its closed form
MaxAxis == 6

(* ------------------------------------------------------------------ *)
(* program constants                                                  *)
(* ------------------------------------------------------------------ *)
\* gw_fac=3, the default of __init__
gw_fac == 3
\* max_process_p=20, the default of the evaluators
DefaultBatch == 20
\* np.isclose(a, b, 1e-4): rtol = 1/RTolInv
RTolInv == 10000
\* np.isclose's default atol = 1e-8 = 1/ATolInv
ATolInv == 100000000

(* ------------------------------------------------------------------ *)
(* integers, rationals, complex numbers                               *)
(* ------------------------------------------------------------------ *)
Abs(x) == IF x < 0 THEN -x ELSE x

RECURSIVE GCD(_, _)
GCD(a, b) == IF b = 0 THEN Abs(a) ELSE GCD(b, a % Abs(b))

RECURSIVE Pow2(_)
Pow2(n) == IF n <= 0 THEN 1 ELSE 2 * Pow2(n - 1)

\* a rational n/d in lowest terms, d > 0
Rat(n, d) ==
    LET g == GCD(n, d)
        s == IF d < 0 THEN -1 ELSE 1
    IN  [n |-> s * (n \div g), d |-> s * (d \div g)]

RZero == [n |-> 0, d |-> 1]

RAdd(x, y) ==
    LET g == GCD(x.d, y.d)
    IN  Rat(x.n * (y.d \div g) + y.n * (x.d \div g), x.d * (y.d \div g))

\* c * i^k for a complex c = <<re, im>>
RotI(c, k) ==
    LET m == k % 4
    IN  CASE m = 0 -> c
          [] m = 1 -> <<-c[2], c[1]>>
          [] m = 2 -> <<-c[1], -c[2]>>
          [] m = 3 -> <<c[2], -c[1]>>

\* the sum of f[0] .. f[n-1]
RECURSIVE SumInt(_, _)
SumInt(f, n) == IF n = 0 THEN 0 ELSE f[n - 1] + SumInt(f, n - 1)

\* the sum of the complex f[0] .. f[n-1]
SumC(f, n) ==
    <<SumInt([i \in 0 .. n - 1 |-> f[i][1]], n),
      SumInt([i \in 0 .. n - 1 |-> f[i][2]], n)>>

RECURSIVE GCDAll(_, _, _)
GCDAll(f, n, acc) == IF n = 0 THEN acc ELSE GCDAll(f, n - 1, GCD(f[n - 1], acc))

RECURSIVE LCMTo(_, _, _)
\* the least common multiple of the non-zero f[0] .. f[n-1]
LCMTo(f, n, acc) ==
    IF n = 0 THEN acc
    ELSE LCMTo(f, n - 1,
               IF f[n - 1] = 0 THEN acc ELSE (acc * f[n - 1]) \div GCD(acc, f[n - 1]))

RECURSIVE MaxTo(_, _)
MaxTo(f, n) ==
    IF n = 0 THEN 0
    ELSE LET m == MaxTo(f, n - 1) IN IF f[n - 1] > m THEN f[n - 1] ELSE m

Dot3(a, b) == a[1] * b[1] + a[2] * b[2] + a[3] * b[3]

(* ------------------------------------------------------------------ *)
(* the FFT grid                                                       *)
(* ------------------------------------------------------------------ *)
NVox(grid) == grid[1] * grid[2] * grid[3]

\* the index <<i, j, k>> of the voxel at position v of the C-ordered array
Unravel(grid, v) ==
    <<v \div (grid[2] * grid[3]), (v \div grid[3]) % grid[2], v % grid[3]>>

\* the index itself as frequency, without the negative half
fftfreqUnsigned(i, n) == i

\* np.fft.fftfreq(n)*n at index i
fftfreq(i, n) == IF i <= (n - 1) \div 2 THEN i ELSE i - n

\* self._g_grid, in units of 2 pi / L
g_grid(grid) ==
    [v \in 0 .. NVox(grid) - 1 |->
        LET ix == Unravel(grid, v)
        IN  <<fftfreq(ix[1], grid[1]), fftfreq(ix[2], grid[2]),
              fftfreq(ix[3], grid[3])>>]

\* Gnorm squared, in units of (2 pi / L)^2
Gnorm2(gg, v) == Dot3(gg[v], gg[v])

\* Gnorm_fixed = np.where(Gnorm > 0, Gnorm, np.inf), squared: infinite, or
\* the square sq in units of (2 pi / L)^2
Gnorm_fixed2(gg, v) ==
    IF Gnorm2(gg, v) > 0 THEN [inf |-> FALSE, sq |-> Gnorm2(gg, v)]
    ELSE [inf |-> TRUE]

\* the divisor made 1 where Gnorm is 0, instead of infinite
InvGnormOneAtZero(gg, v, K) ==
    IF Gnorm2(gg, v) > 0 THEN K \div Gnorm2(gg, v) ELSE K

\* 1/Gnorm_fixed**2 times K: 0 where Gnorm_fixed is infinite
InvGnormFixed2(gg, v, K) ==
    IF Gnorm_fixed2(gg, v).inf THEN 0 ELSE K \div Gnorm_fixed2(gg, v).sq

\* np.fft.fftn of a real or complex grid a (a function on 0 .. N-1); the
\* axes have 1, 2 or 4 points, so exp(-2 pi i k v / n) = i^(-k v (4/n))
fftn(grid, a) ==
    LET N == NVox(grid)
    IN  [k \in 0 .. N - 1 |->
            LET kx == Unravel(grid, k)
            IN  SumC([v \in 0 .. N - 1 |->
                        LET vx == Unravel(grid, v)
                        IN  RotI(a[v],
                                 -(kx[1] * vx[1] * (4 \div grid[1])
                                   + kx[2] * vx[2] * (4 \div grid[2])
                                   + kx[3] * vx[3] * (4 \div grid[3])))],
                     N)]

(* ------------------------------------------------------------------ *)
(* __init__                                                           *)
(* ------------------------------------------------------------------ *)
\* io.read(seedpath + '.cell').calc.cell.species_pot.value: the exception
\* raised by the try block of lines 78-79
TryReadCell(in) == IF in.cell.readable THEN "none" ELSE "IOError"

\* a handler that lets IOError through
ReraiseIOError(e) == e

\* except IOError: pass
ExceptIOErrorPass(e) == IF e = "IOError" THEN "none" ELSE e

\* except IOError: print('WARNING: pseudopotential file ... not found')
ExceptIOErrorWarn(e) == IF e = "IOError" THEN "none" ELSE e

\* ppots.update(d): the entries of d over those of ppots
DictUpdate(ppots, d) == d @@ ppots

RECURSIVE ReadSpeciesPot(_, _, _)
\* the loop "for el, pppath in ppf" over the files named in the .cell file:
\* the table after it, the lines printed, and the exception that left it
ReadSpeciesPot(in, names, acc) ==
    IF names = <<>> THEN acc
    ELSE LET f == in.files[Head(names)]
             e == IF f.readable THEN "none" ELSE "IOError"
         IN  IF e = "none"
             THEN ReadSpeciesPot(in, Tail(names),
                                 [acc EXCEPT !.ppots = DictUpdate(acc.ppots, f.table)])
             ELSE IF ExceptIOErrorWarn(e) = "none"
             THEN ReadSpeciesPot(in, Tail(names),
                                 [acc EXCEPT !.out = Append(acc.out, Head(names))])
             ELSE [acc EXCEPT !.raised = ExceptIOErrorWarn(e)]

\* lines 72-91: ppots from the .castep file, overridden by the files of the
\* SPECIES_POT block of the .cell file when that file can be read
LoadPpots(in) ==
    LET start == [raised |-> "none", ppots |-> in.castep, out |-> <<>>]
        e == ExceptIOErrorPass(TryReadCell(in))
    IN  IF e # "none" THEN [start EXCEPT !.raised = e]
        ELSE IF ~in.cell.readable THEN start
        ELSE ReadSpeciesPot(in, in.cell.species_pot, start)

\* q[i] = ppots[el][0] finds every element: no KeyError
HasPpots(ppots, elems) == \A i \in 1 .. Len(elems) : elems[i] \in DOMAIN ppots

\* q = np.array([ppots[el][0] for el in elems])
Charges(ppots, elems) == [i \in 1 .. Len(elems) |-> ppots[elems[i]][1]]

\* gw = np.array([ppots[el][1]/gw_fac for el in elems]); the radii of the
\* modelled tables are multiples of gw_fac
Widths(ppots, elems) == [i \in 1 .. Len(elems) |-> ppots[elems[i]][2] \div gw_fac]

\* sum(q)
RECURSIVE SumSeq(_)
SumSeq(s) == IF s = <<>> THEN 0 ELSE Head(s) + SumSeq(Tail(s))

\* the comparison without the absolute value of the difference
iscloseOneSided(an, ad, b) ==
    (an - b * ad) * (ATolInv \div ad) <= 1 + (ATolInv \div RTolInv) * Abs(b)

\* np.isclose(an/ad, b, 1e-4): |a - b| <= atol + rtol*|b|, for ad dividing
\* ATolInv
isclose(an, ad, b) ==
    Abs(an - b * ad) * (ATolInv \div ad) <= 1 + (ATolInv \div RTolInv) * Abs(b)

\* the density scaled by -sum(q)/np.average(self._rho) instead
NormaliseByMean(raw, N, sumq) ==
    LET S == SumInt(raw, N)
    IN  [num |-> [v \in 0 .. N - 1 |-> -sumq * raw[v] * N], den |-> S]

\* self._rho *= -sum(q)/np.sum(self._rho): the numerators over the common
\* denominator np.sum(self._rho) (the unit of the raw data cancels)
Normalise(raw, N, sumq) ==
    LET S == SumInt(raw, N)
        g == GCDAll([v \in 0 .. N - 1 |-> sumq * raw[v]], N, S)
    IN  [num |-> [v \in 0 .. N - 1 |-> (-sumq * raw[v]) \div g],
         den |-> S \div g]

\* np.average of the density after the rescale of line 124, as if the
\* rescale came before the comparison
GateMeanRescaled(in) ==
    LET N == NVox(in.grid)
        nrm == Normalise(in.data[1], N,
                         SumSeq(Charges(LoadPpots(in).ppots, in.elems)))
        m == Rat(SumInt(nrm.num, N), nrm.den * N)
    IN  <<m.n, m.d>>

\* the value compared with sum(q) at the neutrality gate: np.average(self._rho)
\* of the density as read, as the fraction <<numerator, denominator>>
GateMean(in) ==
    <<SumInt(in.data[1], NVox(in.grid)), NVox(in.grid) * in.unit>>

\* the neutrality gate passes
GatePasses(in, sumq) == isclose(GateMean(in)[1], GateMean(in)[2], sumq)

\* vol = abs(np.dot(np.cross(cell[:, 0], cell[:, 1]), cell[:, 2])) of the
\* cubic cell of side L
Volume(L) == Abs(L * L * L)

\* exp(-0.5*(gw*Gnorm)**2) times 2^E: the unit of length of the radii is
\* the one that makes exp(-0.5*(2 pi/L)^2) equal to 1/2
Gauss(gw, g2, E) == Pow2(E - gw * gw * g2)

\* the loop "for i, p in enumerate(pos): self._rhoi_G += ..." at one G
RECURSIVE IonSum(_, _, _, _, _, _)

\* the loop that overwrites the coefficient instead of accumulating it
IonSumOverwrite(q, gw, pos, g, E, n) ==
    IF n = 0 THEN <<0, 0>>
    ELSE RotI(<<q[n] * Gauss(gw[n], Dot3(g, g), E), 0>>, -Dot3(g, pos[n]))

IonSum(q, gw, pos, g, E, n) ==
    IF n = 0 THEN <<0, 0>>
    ELSE LET rest == IonSum(q, gw, pos, g, E, n - 1)
             term == RotI(<<q[n] * Gauss(gw[n], Dot3(g, g), E), 0>>,
                          -Dot3(g, pos[n]))
         IN  <<rest[1] + term[1], rest[2] + term[2]>>

\* 4.0/3.0*np.pi*(3*dyad_G - np.eye(3)) with the G=0 entry set to 0, times
\* self._spin_G; numerators over 3 K vol N, in units of pi _dipT
DipG(gg, spinG, K, N) ==
    [ab \in (1 .. 3) \X (1 .. 3) |->
        [v \in 0 .. N - 1 |->
            LET c == IF v = 0 THEN 0
                     ELSE 4 * (3 * gg[v][ab[1]] * gg[v][ab[2]] * InvGnormFixed2(gg, v, K)
                               - (IF ab[1] = ab[2] THEN K ELSE 0))
            IN  <<c * spinG[v][1], c * spinG[v][2]>>]]

\* the flag set without the fields it announces
SpinFieldsFlagOnly(in, gg, K, N) == [spinpol |-> Len(in.data) >= 2]

\* the fields that exist only when the density has a second channel
SpinFields(in, gg, K, N) ==
    IF Len(in.data) >= 2
    THEN LET sG == fftn(in.grid, [v \in 0 .. N - 1 |-> <<in.data[2][v], 0>>])
         IN  [spinpol |-> TRUE, spin |-> in.data[2], spin_G |-> sG,
              dip_G |-> DipG(gg, sG, K, N), dipD |-> 3 * K * Volume(in.L) * N]
    ELSE [spinpol |-> FALSE]

\* the lookups ppots[el] of the try block: the exception they raise
TryLookup(ppots, elems) == IF HasPpots(ppots, elems) THEN "none" ELSE "KeyError"

\* the try block without its handler
ExceptNothing(e) == e

\* except KeyError: raise RuntimeError("Some or all CASTEP pseudopotentials
\* were not found ...")
ExceptKeyError(e) == IF e = "KeyError" THEN "PpotsNotFound" ELSE e

\* ChargeDistribution.__init__: the error raised, or the object built
ChargeDistribution(in) ==
    LET grid == in.grid
        N == NVox(grid)
        gg == g_grid(grid)
        lp == LoadPpots(in)
    IN  IF lp.raised # "none" THEN [raised |-> lp.raised]
        ELSE IF TryLookup(lp.ppots, in.elems) # "none"
        THEN [raised |-> ExceptKeyError(TryLookup(lp.ppots, in.elems))]
        ELSE
        LET q == Charges(lp.ppots, in.elems)
            gw == Widths(lp.ppots, in.elems)
            sumq == SumSeq(q)
        IN  IF ~GatePasses(in, sumq)
            THEN [raised |-> "NotNeutral"]
            ELSE
            LET nrm == Normalise(in.data[1], N, sumq)
                rhoeG == fftn(grid, [v \in 0 .. N - 1 |-> <<nrm.num[v], 0>>])
                g2 == [v \in 0 .. N - 1 |-> Gnorm2(gg, v)]
                K == LCMTo(g2, N, 1)
                E == MaxTo([i \in 0 .. Len(gw) - 1 |-> gw[i + 1] * gw[i + 1]], Len(gw))
                         * MaxTo(g2, N)
                rhoiG == [v \in 0 .. N - 1 |->
                             IonSum(q, gw, in.pos, gg[v], E, Len(in.pos))]
            IN  [raised |-> "none",
                 self |->
                    [grid |-> grid, g_grid |-> gg, vol |-> Volume(in.L),
                     L |-> in.L,
                     rho |-> nrm.num, rhoD |-> nrm.den,
                     rhoe_G |-> rhoeG,
                     Ve_G |-> [v \in 0 .. N - 1 |->
                                  <<InvGnormFixed2(gg, v, K) * rhoeG[v][1],
                                    InvGnormFixed2(gg, v, K) * rhoeG[v][2]>>],
                     rhoi_G |-> rhoiG, rhoiD |-> Pow2(E),
                     Vi_G |-> [v \in 0 .. N - 1 |->
                                  <<InvGnormFixed2(gg, v, K) * rhoiG[v][1],
                                    InvGnormFixed2(gg, v, K) * rhoiG[v][2]>>],
                     potD |-> K * in.L]
                    @@ SpinFields(in, gg, K, N)]

(* ------------------------------------------------------------------ *)
(* the files given to the constructor                                 *)
(* ------------------------------------------------------------------ *)
Grids == {<<2, 2, 2>>, <<4, 2, 2>>}

Structures ==
    {[elems |-> <<"H">>, pos |-> << <<0, 0, 0>> >>],
     [elems |-> <<"H", "O">>, pos |-> << <<1, 2, 0>>, <<0, 0, 0>> >>]}

\* the pseudopotential data: the table read from the .castep file, the
\* .cell file (readable or not, and the files its SPECIES_POT block names)
\* and those files (readable or not, and the table each holds)
PpotFiles ==
    {[castep |-> ("H" :> <<1, 3>>) @@ ("O" :> <<2, 3>>),
      cell |-> [readable |-> FALSE, species_pot |-> <<>>],
      files |-> <<>>],
     [castep |-> ("H" :> <<1, 3>>),
      cell |-> [readable |-> TRUE, species_pot |-> <<"O_00.usp">>],
      files |-> ("O_00.usp" :> [readable |-> TRUE, table |-> ("O" :> <<2, 3>>)])],
     [castep |-> ("H" :> <<1, 3>>),
      cell |-> [readable |-> TRUE, species_pot |-> <<"O_00.usp">>],
      files |-> ("O_00.usp" :> [readable |-> FALSE, table |-> <<>>])]}

\* the shape of a density over the cell, a weight per voxel that sums to
\* the number of voxels: flat, a wave along x, or a lump moved from one
\* voxel to another
Weight(grid, pat, v) ==
    CASE pat = "flat" -> 1
      [] pat = "wave" -> IF Unravel(grid, v)[1] % 2 = 0 THEN 2 ELSE 0
      [] OTHER -> IF v = 4 THEN 2 ELSE IF v = NVox(grid) - 1 THEN 0 ELSE 1

\* a raw density grid in data units of 1/unit: c per voxel on average
Density(grid, c, pat) == [v \in 0 .. NVox(grid) - 1 |-> c * Weight(grid, pat, v)]

\* <<unit, density>>: m electrons per cell exactly, in unit data; or, on the
\* smaller grid, in data that resolve the tolerance of the neutrality gate,
\* off by m or m + 1 parts in RTolInv either way
Densities(grid) ==
    {<<1, Density(grid, m, pat)>> : m \in {1, 3}, pat \in {"flat", "wave", "lump"}}
    \cup {<<RTolInv, Density(grid, m * RTolInv + e * (m + k), "flat")>> :
            m \in {x \in {1, 3} : grid = <<2, 2, 2>>}, e \in {-1, 0, 1}, k \in {0, 1}}

\* the spin channel of a spin-polarised density file
SpinGrid(grid) ==
    [v \in 0 .. NVox(grid) - 1 |-> IF v = 0 THEN 2 ELSE IF v = 1 THEN -1 ELSE 0]

\* <<side of the cubic cell, number of channels of the density>>
Cells == {<<1, 1>>, <<2, 2>>}

Inputs ==
    UNION {{[grid |-> g, L |-> lc[1], unit |-> ud[1],
             data |-> IF lc[2] = 1 THEN <<ud[2]>> ELSE <<ud[2], SpinGrid(g)>>,
             elems |-> s.elems, pos |-> s.pos,
             castep |-> t.castep, cell |-> t.cell, files |-> t.files] :
               lc \in Cells, s \in Structures, t \in PpotFiles, ud \in Densities(g)} :
           g \in Grids}

(* ------------------------------------------------------------------ *)
(* array shapes: what numpy does with the shapes of its operands      *)
(* ------------------------------------------------------------------ *)
RECURSIVE Reverse(_)
Reverse(s) == IF s = <<>> THEN <<>> ELSE Reverse(Tail(s)) \o <<Head(s)>>

\* a shape padded on the left with 1s to n dimensions
PadTo(s, n) == [i \in 1 .. n |-> IF i <= n - Len(s) THEN 1 ELSE s[i - (n - Len(s))]]

MaxOf(a, b) == IF a > b THEN a ELSE b

\* the operands of an elementwise product broadcast against each other
BroadcastOK(a, b) ==
    LET n == MaxOf(Len(a), Len(b))
    IN  \A i \in 1 .. n :
            \/ PadTo(a, n)[i] = PadTo(b, n)[i]
            \/ PadTo(a, n)[i] = 1
            \/ PadTo(b, n)[i] = 1

Broadcast(a, b) ==
    LET n == MaxOf(Len(a), Len(b))
    IN  [i \in 1 .. n |-> MaxOf(PadTo(a, n)[i], PadTo(b, n)[i])]

RECURSIVE StripOnes(_, _)
\* leading dimensions of size 1 dropped until at most n dimensions are left
StripOnes(s, n) ==
    IF Len(s) > n /\ Head(s) = 1 THEN StripOnes(Tail(s), n) ELSE s

\* arr[s] = value: the value broadcasts into the target
CanAssign(value, target) ==
    LET v == StripOnes(value, Len(target))
    IN  /\ Len(v) <= Len(target)
        /\ \A i \in 1 .. Len(target) :
               PadTo(v, Len(target))[i] \in {1, target[i]}

\* the shape of the result array slice of each evaluator for n points
OutShape(op, n) ==
    CASE op \in {"rho", "V"} -> <<n>>
      [] op = "dV" -> <<n, 3>>
      [] OTHER -> <<n, 3, 3>>

\* a loop body that takes a chunk of any shape
ChunkErrorNever(op, grid, cs) == "none"

\* the body of "for s in slices" for a chunk p[s] of shape cs: the
\* exception numpy raises, or "none"
ChunkError(op, grid, cs) ==
    LET pT == Reverse(cs)
        \* np.tensordot(self._g_grid, p[s].T, axes=(0, 0))
        ftk == grid \o Tail(pT)
        lead == CASE op \in {"rho", "V"} -> <<>>
                  [] op = "dV" -> <<1>>
                  [] OTHER -> <<1, 1>>
        kern == CASE op \in {"rho", "V"} -> ftk
                  [] op = "dV" -> <<3>> \o grid \o <<1>>
                  [] OTHER -> <<3, 3>> \o grid \o <<1>>
        \* dftk, d2ftk: the kernel times ftk[None, ...]
        dftk == Broadcast(kern, lead \o ftk)
        prod == Broadcast(lead \o grid \o <<1>>, dftk)
        \* np.sum over the three grid axes; dV, d2V and Hfine take .T of it
        sum3 == SubSeq(prod, 1, Len(lead)) \o SubSeq(prod, Len(lead) + 4, Len(prod))
        summed == IF op \in {"rho", "V"} THEN sum3 ELSE Reverse(sum3)
    IN  IF pT[1] # 3 THEN "ValueError"
        ELSE IF op \in {"dV", "d2V"} /\ Len(ftk) < 4 THEN "IndexError"
        ELSE IF ~BroadcastOK(kern, lead \o ftk) THEN "ValueError"
        ELSE IF ~BroadcastOK(lead \o grid \o <<1>>, dftk) THEN "ValueError"
        ELSE IF ~CanAssign(summed, OutShape(op, cs[1])) THEN "ValueError"
        ELSE "none"

(* ------------------------------------------------------------------ *)
(* the evaluators                                                     *)
(* ------------------------------------------------------------------ *)
\* slices that split N items in chunks of M items at most
make_process_slices(N, M) ==
    [k \in 1 .. (N + M - 1) \div M |->
        <<(k - 1) * M, IF k * M < N THEN k * M ELSE N>>]

\* p[:n] for the n points of the slice, whatever its start
PSliceFromStart(P, s) == SubSeq(P, 1, s[2] - s[1])

\* p[s] of a list of points
PSlice(P, s) == SubSeq(P, s[1] + 1, s[2])

\* np.real(np.sum(field*w*i^rot*ftk)) at the point pt, for integer weights
ReSum(field, gg, N, pt, rot, W(_)) ==
    SumInt([v \in 0 .. N - 1 |->
               W(v) * RotI(field[v], Dot3(gg[v], pt) + rot)[1]], N)

\* the number of components of one point's value
Components(op) ==
    CASE op \in {"rho", "V"} -> 1
      [] op = "dV" -> 3
      [] OTHER -> 9

\* the loop body with the phase G.p taken at half the point
PointRawHalfG(self, op, field, pt) ==
    LET N == NVox(self.grid)
        gg == self.g_grid
        h == <<pt[1] \div 2, pt[2] \div 2, pt[3] \div 2>>
    IN  CASE op \in {"rho", "V"} ->
                <<ReSum(field, gg, N, h, 0, LAMBDA v : 1)>>
          [] op = "dV" ->
                [a \in 1 .. 3 |-> ReSum(field, gg, N, h, 1, LAMBDA v : gg[v][a])]
          [] OTHER ->
                [c \in 1 .. 9 |->
                    LET i == ((c - 1) \div 3) + 1
                        j == ((c - 1) % 3) + 1
                    IN  ReSum(field, gg, N, h, 0,
                              LAMBDA v : -(gg[v][j] * gg[v][i]))]

\* the loop body with g2_mat built from one index only
PointRawOneIndex(self, op, field, pt) ==
    LET N == NVox(self.grid)
        gg == self.g_grid
    IN  CASE op \in {"rho", "V"} ->
                <<ReSum(field, gg, N, pt, 0, LAMBDA v : 1)>>
          [] op = "dV" ->
                [a \in 1 .. 3 |-> ReSum(field, gg, N, pt, 1, LAMBDA v : gg[v][a])]
          [] OTHER ->
                [c \in 1 .. 9 |->
                    LET i == ((c - 1) \div 3) + 1
                        j == ((c - 1) % 3) + 1
                    IN  ReSum(field, gg, N, pt, 0,
                              LAMBDA v : -(gg[v][j] * gg[v][j]))]

\* what the loop body stores for one point from the Fourier field given:
\* rho and V the plain sum; dV the sum with 1j*g (g in units of 2 pi/L);
\* d2V the sum with -g2_mat, transposed by .T
PointRaw(self, op, field, pt) ==
    LET N == NVox(self.grid)
        gg == self.g_grid
    IN  CASE op \in {"rho", "V"} ->
                <<ReSum(field, gg, N, pt, 0, LAMBDA v : 1)>>
          [] op = "dV" ->
                [a \in 1 .. 3 |-> ReSum(field, gg, N, pt, 1, LAMBDA v : gg[v][a])]
          [] OTHER ->
                [c \in 1 .. 9 |->
                    LET i == ((c - 1) \div 3) + 1
                        j == ((c - 1) % 3) + 1
                    IN  ReSum(field, gg, N, pt, 0,
                              LAMBDA v : -(gg[v][j] * gg[v][i]))]

\* the pair of Fourier fields each evaluator sums
FieldsOf(self, op) ==
    IF op = "rho" THEN <<self.rhoe_G, self.rhoi_G>> ELSE <<self.Ve_G, self.Vi_G>>

\* arr[s] = vals
SetSlice(arr, s, vals) ==
    [i \in DOMAIN arr |-> IF s[1] < i /\ i <= s[2] THEN vals[i - s[1]] ELSE arr[i]]

\* one pass of "for s in slices": both arrays after the chunk s
ChunkStep(self, op, P, s, arrs) ==
    LET ps == PSlice(P, s)
        F == FieldsOf(self, op)
    IN  <<SetSlice(arrs[1], s, [j \in 1 .. Len(ps) |-> PointRaw(self, op, F[1], ps[j])]),
          SetSlice(arrs[2], s, [j \in 1 .. Len(ps) |-> PointRaw(self, op, F[2], ps[j])])>>

RECURSIVE RunSlices(_, _, _, _, _)
\* the whole loop over the slices, from the arrays of zeros
RunSlices(self, op, P, slices, arrs) ==
    IF slices = <<>> THEN arrs
    ELSE RunSlices(self, op, P, Tail(slices),
                   ChunkStep(self, op, P, Head(slices), arrs))

\* np.zeros(N), np.zeros((N, 3)), np.zeros((N, 3, 3))
Zeros(op, N) == [i \in 1 .. N |-> [c \in 1 .. Components(op) |-> 0]]

\* the conversion of units after the loop, <<numerator, denominator>> of the
\* factor for the fields over the denominator D: rho /= vol; V, dV, d2V
\* *= _cK*cnst.e*1e10, 1e20, 1e30 (the constant stays in the unit; the powers
\* of 2 pi / L of the kernel 4 pi/G^2/vol and of g are the numbers here)
UnitFactor(self, op, D) ==
    CASE op = "rho" -> <<1, D * self.vol>>
      [] op = "V" -> <<1, D * self.potD>>
      [] op = "dV" -> <<2, D * self.potD * self.L>>
      [] OTHER -> <<4, D * self.potD * self.L * self.L>>

UnitName(op) ==
    CASE op = "rho" -> "e/Ang^3"
      [] op = "V" -> "V/pi"
      [] op = "dV" -> "V/m"
      [] OTHER -> "pi V/m^2"

\* an array of raw sums converted
Convert(arr, f) ==
    [i \in DOMAIN arr |-> [c \in DOMAIN arr[i] |-> Rat(f[1] * arr[i][c], f[2])]]

\* rho = rhoe+rhoi, V = Ve + Vi, ...
AddArrays(x, y) ==
    [i \in DOMAIN x |-> [c \in DOMAIN x[i] |-> RAdd(x[i][c], y[i][c])]]

\* the total summed before the conversion of units
FinishSumFirst(self, op, arrs) ==
    LET e == Convert(arrs[1], UnitFactor(self, op, self.rhoD))
        i == Convert(arrs[2], UnitFactor(self, op, self.rhoiD))
    IN  [total |-> AddArrays(Convert(arrs[1], <<1, self.rhoD>>),
                             Convert(arrs[2], <<1, self.rhoiD>>)),
         elec |-> e, ion |-> i, unit |-> UnitName(op)]

\* the statements after the loop: the three arrays returned
Finish(self, op, arrs) ==
    LET e == Convert(arrs[1], UnitFactor(self, op, self.rhoD))
        i == Convert(arrs[2], UnitFactor(self, op, self.rhoiD))
    IN  [total |-> AddArrays(e, i), elec |-> e, ion |-> i, unit |-> UnitName(op)]

\* p = np.array(p); if len(p.shape) == 1: p = p[None, :]
AsList(shape) == IF Len(shape) = 1 THEN <<1>> \o shape ELSE shape

\* rho, V, dV and d2V share their body up to the kernel: the exception
\* raised or the tuple returned for the argument p = [shape, pts]
Evaluate(self, op, p, max_process_p) ==
    LET shape == AsList(p.shape)
    IN  IF shape = <<>> THEN [raised |-> "IndexError"]
        ELSE
        LET N == shape[1]
            slices == make_process_slices(N, max_process_p)
            errs == {ChunkError(op, self.grid, <<slices[k][2] - slices[k][1]>> \o Tail(shape)) :
                        k \in 1 .. Len(slices)} \ {"none"}
        IN  IF errs # {} THEN [raised |-> CHOOSE e \in errs : TRUE]
            ELSE IF Len(p.pts) # N THEN [raised |-> "none", ret |-> [unit |-> "unspecified"]]
            ELSE [raised |-> "none",
                  ret |-> Finish(self, op, RunSlices(self, op, p.pts, slices,
                                                     <<Zeros(op, N), Zeros(op, N)>>))]

rho(self, p, max_process_p) == Evaluate(self, "rho", p, max_process_p)

V(self, p, max_process_p) == Evaluate(self, "V", p, max_process_p)

dV(self, p, max_process_p) == Evaluate(self, "dV", p, max_process_p)

d2V(self, p, max_process_p) == Evaluate(self, "d2V", p, max_process_p)

\* the property has_spin
has_spin(self) == self.spinpol

\* "self.has_spin()": the call of the value of the property; a bool is not
\* callable
CallValue(b) ==
    IF b \in BOOLEAN THEN [raised |-> "TypeError"] ELSE [raised |-> "none", ret |-> b]

\* HT[s] for one point: the sum of self._dip_G transposed by .T, and with
\* contact the Fermi term on the diagonal; in units of pi _dipT, in which
\* _fermiT is 8/3
HfinePoint(self, pt, contact) ==
    LET N == NVox(self.grid)
        fermi == Rat(8 * ReSum(self.spin_G, self.g_grid, N, pt, 0, LAMBDA v : 1),
                     3 * self.vol * N)
    IN  [c \in 1 .. 9 |->
            LET i == ((c - 1) \div 3) + 1
                j == ((c - 1) % 3) + 1
                d == Rat(ReSum(self.dip_G[<<j, i>>], self.g_grid, N, pt, 0, LAMBDA v : 1),
                         self.dipD)
            IN  IF contact /\ i = j THEN RAdd(d, fermi) ELSE d]

RECURSIVE HfineSlices(_, _, _, _, _)
\* the loop over the slices of Hfine, from HT = np.zeros((N, 3, 3))
HfineSlices(self, P, contact, slices, HT) ==
    IF slices = <<>> THEN HT
    ELSE LET ps == PSlice(P, Head(slices))
         IN  HfineSlices(self, P, contact, Tail(slices),
                         SetSlice(HT, Head(slices),
                                  [k \in 1 .. Len(ps) |-> HfinePoint(self, ps[k], contact)]))

\* Hfine: "if not self.has_spin():" comes first; the statements after it
\* end in "return HT"
Hfine(self, p, contact, max_process_p) ==
    LET c == CallValue(has_spin(self))
        shape == AsList(p.shape)
    IN  IF c.raised # "none" THEN [raised |-> c.raised]
        ELSE IF ~c.ret THEN [raised |-> "NoSpinError"]
        ELSE IF shape = <<>> THEN [raised |-> "IndexError"]
        ELSE
        LET N == shape[1]
            slices == make_process_slices(N, max_process_p)
            errs == {ChunkError("Hfine", self.grid,
                                <<slices[k][2] - slices[k][1]>> \o Tail(shape)) :
                        k \in 1 .. Len(slices)} \ {"none"}
        IN  IF errs # {} THEN [raised |-> CHOOSE e \in errs : TRUE]
            ELSE IF Len(p.pts) # N THEN [raised |-> "none", ret |-> [unit |-> "unspecified"]]
            ELSE [raised |-> "none",
                  ret |-> [HT |-> HfineSlices(self, p.pts, contact, slices,
                                              [k \in 1 .. N |-> [x \in 1 .. 9 |-> RZero]]),
                           unit |-> "T"]]

(* ------------------------------------------------------------------ *)
(* the arguments of the calls                                         *)
(* ------------------------------------------------------------------ *)
Points == {<<1, 2, 0>>, <<3, 1, 2>>}

RECURSIVE Lists(_)
\* the lists of n points
Lists(n) ==
    IF n = 0 THEN {<<>>}
    ELSE {<<x>> \o l : x \in Points, l \in Lists(n - 1)}

\* a single 3-vector, or a sequence of 3-vectors
GoodArgs ==
    {[shape |-> <<3>>, pts |-> <<x>>] : x \in Points}
    \cup UNION {{[shape |-> <<n, 3>>, pts |-> l] : l \in Lists(n)} : n \in 1 .. MaxPts}

\* a scalar, vectors of other lengths, sequences of 2-vectors, arrays of
\* rank 3
BadShapes ==
    {<<>>, <<2>>, <<4>>}
    \cup {<<MaxPts, 2>>, <<MaxPts, 3, 3>>, <<MaxPts, 1, 3>>, <<MaxPts, 3, 1>>}

BadArgs == {[shape |-> sh, pts |-> <<>>] : sh \in BadShapes}

Args == GoodArgs \cup BadArgs

Ops == {"rho", "V", "dV", "d2V", "Hfine"}

\* the call op(p, max_process_p=B) on the object self
Apply(self, op, p, contact, B) ==
    CASE op = "rho" -> rho(self, p, B)
      [] op = "V" -> V(self, p, B)
      [] op = "dV" -> dV(self, p, B)
      [] op = "d2V" -> d2V(self, p, B)
      [] OTHER -> Hfine(self, p, contact, B)

(* ------------------------------------------------------------------ *)
(* schemas.py: load_input_file                                        *)
(* ------------------------------------------------------------------ *)
\* YAML values are pairs <<type, text>>; the strings hold no comma
\* validate_str
validate_str(x) == x[1] = "str"

\* validate_all_of(*options) on one value: a value without .split raises
\* inside the validator, which schema reports as a failed validation
validate_all_of(options, x) == x[1] = "str" /\ x[2] \in options

\* the validator int of a schema entry
validate_int(x) == x[1] = "int"

\* the validator float of a schema entry
validate_float(x) == x[1] = "float"

\* validate_int3 and validate_int_array: a list of three integers is "int3"
validate_int3(x) == x[1] = "int3"
validate_int_array(x) == x[1] \in {"int3", "int_array"}

\* the entries of MuonHarmonicSchema used here: the key is required or
\* Optional with a default, and has a validator
MuonHarmonicSchema ==
    ("cell_file" :> [optional |-> FALSE, default |-> <<"none", "None">>, check |-> "str"])
    @@ ("method" :> [optional |-> TRUE, default |-> <<"str", "independent">>,
                     check |-> "method"])
    @@ ("mu_index" :> [optional |-> TRUE, default |-> <<"int", "-1">>, check |-> "int"])
    @@ ("castep_out_param" :> [optional |-> TRUE, default |-> <<"none", "None">>,
                              check |-> "str"])
    @@ ("mu_symbol" :> [optional |-> TRUE, default |-> <<"str", "H:mu">>, check |-> "str"])
    @@ ("grid_n" :> [optional |-> TRUE, default |-> <<"int", "20">>, check |-> "int"])
    @@ ("sigma_n" :> [optional |-> TRUE, default |-> <<"int", "3">>, check |-> "float"])
    @@ ("avgprop" :> [optional |-> TRUE, default |-> <<"str", "hyperfine">>,
                     check |-> "all_of", options |-> {"hyperfine", "bandstructure"}])
    @@ ("phonon_source" :> [optional |-> TRUE, default |-> <<"str", "castep">>,
                           check |-> "all_of", options |-> {"castep", "asedftbp"}])
    @@ ("asedftbp_pars" :> [optional |-> TRUE, default |-> <<"str", "3ob-3-1">>,
                           check |-> "all_of", options |-> {"3ob-3-1", "pbc-0-3"}])
    @@ ("asedftbp_kpts" :> [optional |-> TRUE, default |-> <<"int3", "[1, 1, 1]">>,
                           check |-> "int_array"])
    @@ ("castep_out_kpts" :> [optional |-> TRUE, default |-> <<"int3", "[1, 1, 1]">>,
                             check |-> "int3"])

\* the validator of a schema entry applied to a value
Check(entry, x) ==
    CASE entry.check = "str" -> validate_str(x)
      [] entry.check = "int" -> validate_int(x)
      [] entry.check = "float" -> validate_float(x)
      [] entry.check = "int3" -> validate_int3(x)
      [] entry.check = "int_array" -> validate_int_array(x)
      [] entry.check = "all_of" -> validate_all_of(entry.options, x)
      [] OTHER -> validate_all_of({"independent", "thermal"}, x)

\* Schema.validate(data) does not raise SchemaError: data is a dict, has
\* no key outside the schema, no value its validator rejects, and every
\* required key
SchemaAccepts(schema, data) ==
    /\ data.kind = "map"
    /\ DOMAIN data.d \subseteq DOMAIN schema
    /\ \A k \in DOMAIN data.d : Check(schema[k], data.d[k])
    /\ \A k \in DOMAIN schema : ~schema[k].optional => k \in DOMAIN data.d

\* what Schema.validate(data) returns: the data, and the default of every
\* Optional key that is absent (the defaults are not validated)
SchemaValidated(schema, data) ==
    [kind |-> "map",
     d |-> [k \in DOMAIN data.d \cup {x \in DOMAIN schema : schema[x].optional} |->
               IF k \in DOMAIN data.d THEN data.d[k] ELSE schema[k].default]]

\* load_input_file(fname, param_schema, merge): file is what yaml.load
\* returns for the file, None for an empty file
load_input_file(file, param_schema, merge) ==
    IF ~merge.given
    THEN IF SchemaAccepts(param_schema, file)
         THEN [raised |-> "none", ret |-> SchemaValidated(param_schema, file)]
         ELSE [raised |-> "RuntimeError"]
    ELSE IF ~SchemaAccepts(param_schema, merge.params)
    THEN [raised |-> "RuntimeError"]
    \* params.update(new_params) with new_params = None
    ELSE IF file.kind # "map" THEN [raised |-> "TypeError"]
    ELSE LET params == [kind |-> "map", d |-> DictUpdate(merge.params.d, file.d)]
         IN  IF SchemaAccepts(param_schema, params)
             THEN [raised |-> "none", ret |-> SchemaValidated(param_schema, params)]
             ELSE [raised |-> "RuntimeError"]

\* the values a file or a merge dict gives each key: values the validator
\* takes and one it rejects
KeyValues ==
    ("cell_file" :> {<<"str", "Si.cell">>, <<"int", "3">>})
    @@ ("method" :> {<<"str", "thermal">>, <<"str", "independent">>, <<"str", "Si.cell">>})
    @@ ("mu_index" :> {<<"int", "3">>, <<"str", "thermal">>})
    @@ ("castep_out_param" :> {<<"str", "Si.param">>, <<"none", "None">>})

\* the dicts over the keys of the schema, and one with a key outside it
Dicts ==
    UNION {[K -> UNION {KeyValues[k] : k \in K}] : K \in SUBSET DOMAIN KeyValues}

ParamDicts ==
    {d \in Dicts : \A k \in DOMAIN d : d[k] \in KeyValues[k]}
    \cup {("cell_file" :> <<"str", "Si.cell">>) @@ ("verbose" :> <<"int", "3">>)}

\* what yaml.load returns: a mapping, or None for an empty file
FileContents ==
    {[kind |-> "map", d |-> d] : d \in ParamDicts} \cup {[kind |-> "None", d |-> <<>>]}

\* merge=None, or a dict
Merges ==
    {[given |-> FALSE, params |-> [kind |-> "None", d |-> <<>>]]}
    \cup {[given |-> TRUE, params |-> [kind |-> "map", d |-> d]] : d \in ParamDicts}

LoadInputs == [file : FileContents, merge : Merges]

NoSelf == [spinpol |-> FALSE]
NoCall == [op |-> "none"]
NoRes == [kind |-> "none"]

Init ==
    /\ inp \in Inputs
    /\ st = "Uninitialized"
    /\ eng = NoSelf
    /\ err = "none"
    /\ call = NoCall
    /\ res = NoRes
    /\ out = <<>>
    /\ fs = {}

\* a constructor whose caller keeps the object that __init__ was filling
\* when it raised
ConstructKeepsObject ==
    /\ st = "Uninitialized"
    /\ LET r == ChargeDistribution(inp)
       IN  /\ err' = r.raised
           /\ st' = "Ready"
           /\ eng' = IF r.raised = "none" THEN r.self
                     ELSE [spinpol |-> FALSE, grid |-> inp.grid,
                           g_grid |-> g_grid(inp.grid)]
    /\ out' = LoadPpots(inp).out
    /\ UNCHANGED <<inp, call, res, fs>>

\* seedname handed to ChargeDistribution(...): Ready, or no instance
Construct ==
    /\ st = "Uninitialized"
    /\ LET r == ChargeDistribution(inp)
       IN  /\ err' = r.raised
           /\ st' = IF r.raised = "none" THEN "Ready" ELSE "NoInstance"
           /\ eng' = IF r.raised = "none" THEN r.self ELSE NoSelf
    /\ out' = LoadPpots(inp).out
    /\ UNCHANGED <<inp, call, res, fs>>

\* an evaluator that converts the field of the object in place: for rho,
\* "self._rhoe_G /= self._vol" instead of "rhoe /= self._vol"
QueryInPlace(op, p, contact, B) ==
    /\ st = "Ready"
    /\ call = NoCall
    /\ LET r == Apply(eng, op, p, contact, B)
       IN  /\ err' = r.raised
           /\ res' = IF r.raised = "none" THEN r.ret ELSE NoRes
    /\ call' = [op |-> op, p |-> p, contact |-> contact, B |-> B, n |-> 1]
    /\ eng' = IF op = "rho" THEN [eng EXCEPT !.rhoD = eng.rhoD * eng.vol] ELSE eng
    /\ UNCHANGED <<inp, st, out, fs>>

\* a call of an evaluator on the object built, by a caller that holds no
\* result of an earlier call; call.p is the caller's array after the call
\* (p = np.array(p) gives the evaluator an array of its own)
Query(op, p, contact, B) ==
    /\ st = "Ready"
    /\ call = NoCall
    /\ LET r == Apply(eng, op, p, contact, B)
       IN  /\ err' = r.raised
           /\ res' = IF r.raised = "none" THEN r.ret ELSE NoRes
    /\ call' = [op |-> op, p |-> p, contact |-> contact, B |-> B, n |-> 1]
    /\ UNCHANGED <<inp, st, eng, out, fs>>

\* the caller makes the call it has just made once more, with the array
\* and the arguments it holds
Repeat ==
    /\ st = "Ready"
    /\ call # NoCall
    /\ call.n = 1
    /\ LET r == Apply(eng, call.op, call.p, call.contact, call.B)
       IN  /\ err' = r.raised
           /\ res' = IF r.raised = "none" THEN r.ret ELSE NoRes
    /\ call' = [call EXCEPT !.n = 2]
    /\ UNCHANGED <<inp, st, eng, out, fs>>

\* the caller is done with what the call returned or raised
Drop ==
    /\ st = "Ready"
    /\ call # NoCall
    /\ call' = NoCall
    /\ res' = NoRes
    /\ err' = "none"
    /\ UNCHANGED <<inp, st, eng, out, fs>>

Next ==
    \/ Construct
    \/ Drop
    \/ Repeat
    \/ \E op \in Ops \ {"Hfine"}, p \in Args, B \in 1 .. MaxB : Query(op, p, FALSE, B)
    \/ \E p \in Args, c \in BOOLEAN : Query("Hfine", p, c, DefaultBatch)

Spec == Init /\ [][Next]_vars

\* the program before load_input_file is called on a parameter file
InitLoad ==
    /\ inp \in LoadInputs
    /\ st = "Uninitialized"
    /\ eng = NoSelf
    /\ err = "none"
    /\ call = NoCall
    /\ res = NoRes
    /\ out = <<>>
    /\ fs = {}

\* params = load_input_file(args.parameter_file, MuonHarmonicSchema, merge)
LoadInputFile ==
    /\ call = NoCall
    /\ LET r == load_input_file(inp.file, MuonHarmonicSchema, inp.merge)
       IN  /\ err' = r.raised
           /\ res' = IF r.raised = "none" THEN r.ret ELSE NoRes
    /\ call' = [op |-> "load_input_file"]
    /\ UNCHANGED <<inp, st, eng, out, fs>>

NextLoad == LoadInputFile

SpecLoad == InitLoad /\ [][NextLoad]_vars

(* ------------------------------------------------------------------ *)
(* quantum/vibrational/programs.py: vib_avg                           *)
(* ------------------------------------------------------------------ *)
\* the largest cell and the largest grid_n of the model
MaxAtoms == 3
MaxGridN == 3
\* the stop of np.arange(1, 50, 1, int)
AllAtomsStop == 50

\* np.arange(a, b, 1, int)
arange(a, b) == [k \in 1 .. b - a |-> a + k - 1]

\* lines 84-90: the atoms selected; atoms_ind[0] of an empty list raises
SelectAtoms(atoms_ind, method) ==
    IF atoms_ind = <<>> THEN [raised |-> "IndexError", sel |-> <<>>]
    ELSE [raised |-> "none",
          sel |-> IF method = "thermal" THEN <<0>>
                  ELSE IF atoms_ind[1] = -1 THEN arange(1, AllAtomsStop)
                  ELSE atoms_ind]

\* total_grid_n
total_grid_n(method, grid_n) == IF method = "wavefunction" THEN 3 * grid_n ELSE 2 * grid_n

\* np.linspace(-1, 1, g)[n] as <<numerator, denominator>>
linspace(n, g) == IF g = 1 THEN <<-1, 1>> ELSE <<2 * n - (g - 1), g - 1>>

\* a[k] of an array of n items is defined; the item it names, counted from 1
IndexOK(k, n) == -n <= k /\ k < n
PyIndex(k, n) == IF k < 0 THEN k + n + 1 ELSE k + 1

\* the loop of lines 132-138: masses[atom_ind-1] (and the modes of that
\* atom) for an atom that is not in the cell
MajorModesError(sel, num_atoms) ==
    IF \E i \in 1 .. Len(sel) : ~IndexOK(sel[i] - 1, num_atoms)
    THEN "IndexError" ELSE "none"

\* no displacement of an atom
NoDisp == [along |-> "none", num |-> 0, den |-> 1]

\* lines 143-167: displacements[i][point][atom]; for 'wavefunction' in
\* units of maj_evecs[i][axis]*R[i][axis] along the major mode axis, set
\* with the i and atom_ind left by the loop of line 132; for 'thermal' the
\* thermal line or its inverse, a sum over the modes with random signs
displacements(sel, method, grid_n, num_atoms) ==
    [i \in 1 .. Len(sel) |->
        [point \in 0 .. total_grid_n(method, grid_n) - 1 |->
            [atom \in 1 .. num_atoms |->
                IF method = "wavefunction"
                THEN IF i = Len(sel) /\ atom = PyIndex(sel[Len(sel)] - 1, num_atoms)
                     THEN [along |-> "mode" \o ToString(point \div grid_n),
                           num |-> 3 * linspace(point % grid_n, grid_n)[1],
                           den |-> linspace(point % grid_n, grid_n)[2]]
                     ELSE NoDisp
                ELSE [along |-> "thermal_line",
                      num |-> IF point < grid_n THEN 1 ELSE -1, den |-> 1]]]]

\* dirname of write mode, lines 171-174
WriteDir(sname, method, atom_ind) ==
    IF method = "wavefunction" THEN sname \o "_" \o ToString(atom_ind) \o "_wvfn"
    ELSE sname \o "_thermal"

\* lines 169-194: the files write mode writes
WriteCells(in, sel) ==
    LET d == displacements(sel, in.method, in.grid_n, in.num_atoms)
        pts == 0 .. total_grid_n(in.method, in.grid_n) - 1
    IN  {[dir |-> WriteDir(in.sname, in.method, sel[i]),
          name |-> in.sname \o "_" \o ToString(point),
          ext |-> "cell", disp |-> d[i][point]] : i \in 1 .. Len(sel), point \in pts}
        \cup {[dir |-> WriteDir(in.sname, in.method, sel[i]),
               name |-> in.sname \o "_" \o ToString(point),
               ext |-> "param", disp |-> <<>>] :
                 i \in {k \in 1 .. Len(sel) : in.pname}, point \in pts}

\* lines 206-219 and 254-263: the result files read mode opens, in order
RECURSIVE Flatten(_)
Flatten(ss) == IF ss = <<>> THEN <<>> ELSE Head(ss) \o Flatten(Tail(ss))

ReadFiles(in, sel) ==
    IF in.method = "wavefunction"
    THEN Flatten([i \in 1 .. Len(sel) |->
            Flatten([jk \in 1 .. 3 * in.grid_n |->
                LET j == (jk - 1) \div in.grid_n
                    k == (jk - 1) % in.grid_n
                    nm == ToString(j + 1) \o "_" \o ToString(k)
                    dr == in.sname \o "_" \o ToString(sel[i]) \o "/"
                          \o ToString(j + 1) \o "/" \o nm
                IN  <<[dir |-> dr, name |-> nm, ext |-> "magres"],
                      [dir |-> dr, name |-> nm, ext |-> "castep"]>>])])
    ELSE Flatten([it \in 1 .. in.grid_n |->
            <<[dir |-> in.sname \o "_lines",
               name |-> in.sname \o "_thermal_" \o ToString(it - 1), ext |-> "magres"],
              [dir |-> in.sname \o "_lines",
               name |-> in.sname \o "_thermal_inv_" \o ToString(it - 1),
               ext |-> "magres"]>>])

\* the result file f is there: the calculations were run on the cells
\* that are in the directories, each leaving its results beside its cell
ResultExists(files, f) ==
    \E w \in files : w.ext = "cell" /\ w.dir = f.dir /\ w.name = f.name

\* the files read up to the first one that is missing, that one included
RECURSIVE OpenedUntilMissing(_, _)
OpenedUntilMissing(files, fl) ==
    IF fl = <<>> THEN <<>>
    ELSE IF ~ResultExists(files, Head(fl)) THEN <<Head(fl)>>
    ELSE <<Head(fl)>> \o OpenedUntilMissing(files, Tail(fl))

\* lines 225-244 and 268: the reports read mode writes
ReadOutputs(in, sel) ==
    IF in.method = "wavefunction"
    THEN {[dir |-> in.sname \o "_" \o ToString(sel[i]),
           name |-> in.sname \o "_" \o ToString(sel[i]) \o "_" \o kind,
           ext |-> "dat", disp |-> <<>>] :
             i \in 1 .. Len(sel), kind \in {"psi", "tensors", "V", "report"}}
    ELSE {[dir |-> ".", name |-> in.sname \o "_tensors", ext |-> "dat", disp |-> <<>>]}

\* vib_avg(cell_f, method, mu_sym, grid_n, 'hyperfine', value_type,
\* atoms_ind, pname=pname, args_w=args_w) on the files there are: the
\* exception raised, the atoms selected, the files afterwards and the
\* result files opened
vib_avg(in, args_w, files) ==
    LET sa == SelectAtoms(in.atoms_ind, in.method)
        none == [raised |-> "none", sel |-> sa.sel, fs |-> files, opened |-> <<>>]
    IN  IF sa.raised # "none" THEN [none EXCEPT !.raised = sa.raised]
        ELSE IF in.method = "wavefunction"
                /\ MajorModesError(sa.sel, in.num_atoms) # "none"
        THEN [none EXCEPT !.raised = MajorModesError(sa.sel, in.num_atoms)]
        ELSE IF args_w
        THEN [none EXCEPT !.fs = files \cup WriteCells(in, sa.sel)]
        ELSE LET fl == ReadFiles(in, sa.sel)
                 op == OpenedUntilMissing(files, fl)
             IN  IF \E k \in 1 .. Len(op) : ~ResultExists(files, op[k])
                 THEN [none EXCEPT !.raised = "IOError", !.opened = op]
                 ELSE [none EXCEPT !.opened = op,
                                   !.fs = files \cup ReadOutputs(in, sa.sel)]

\* lists of one or two different atoms of the cell, counted from 1
AtomLists(n) ==
    {<<a>> : a \in 1 .. n}
    \cup ({<<a, b>> : a \in 1 .. n, b \in 1 .. n} \ {<<a, a>> : a \in 1 .. n})

\* the arguments of vib_avg: a cell of num_atoms atoms with seedname sname
VibInputs ==
    UNION {[sname : {"Si"}, num_atoms : {n}, method : {"wavefunction", "thermal"},
            grid_n : 1 .. MaxGridN, pname : BOOLEAN,
            atoms_ind : {<<>>, <<-1>>} \cup AtomLists(n)] : n \in 1 .. MaxAtoms}

InitVib ==
    /\ inp \in VibInputs
    /\ st = "Uninitialized"
    /\ eng = NoSelf
    /\ err = "none"
    /\ call = NoCall
    /\ res = NoRes
    /\ out = <<>>
    /\ fs = {}

\* vib_avg in write mode (args_w true), then in read mode on what is there
VibAvg(args_w) ==
    /\ IF args_w THEN call = NoCall
       ELSE call = NoCall \/ (call.op = "vib_avg" /\ call.w)
    /\ LET r == vib_avg(inp, args_w, fs)
       IN  /\ err' = r.raised
           /\ fs' = r.fs
           /\ res' = [opened |-> r.opened]
           /\ call' = [op |-> "vib_avg", w |-> args_w, sel |-> r.sel,
                       after_write |-> call # NoCall]
    /\ UNCHANGED <<inp, st, eng, out>>

NextVib == \E args_w \in BOOLEAN : VibAvg(args_w)

SpecVib == InitVib /\ [][NextVib]_vars

(* ------------------------------------------------------------------ *)
(* quantum/vibrational/average.py: muon_vibrational_average_write     *)
(* ------------------------------------------------------------------ *)
\* the most displaced cells a displacement scheme makes in the model
MaxDispl == 2

\* np.where(species == mu_symbol)[0], counted from 0
MuIndices(species, mu_symbol) ==
    {k - 1 : k \in {j \in DOMAIN species : species[j] = mu_symbol}}

\* the muon relabelled at mu_index whatever the species say
IdentifyMuonByIndex(species, mu_symbol, mu_index) ==
    IF ~IndexOK(mu_index, Len(species))
    THEN [raised |-> "IndexError", species |-> species, mu_index |-> mu_index]
    ELSE [raised |-> "none",
          species |-> [species EXCEPT ![PyIndex(mu_index, Len(species))] = mu_symbol],
          mu_index |-> mu_index]

\* lines 232-243: the muon found by its symbol, or named at mu_index
IdentifyMuon(species, mu_symbol, mu_index) ==
    LET mu_indices == MuIndices(species, mu_symbol)
    IN  IF Cardinality(mu_indices) > 1
        THEN [raised |-> "MuonAverageError", species |-> species, mu_index |-> mu_index]
        ELSE IF Cardinality(mu_indices) = 1
        THEN [raised |-> "none", species |-> species,
              mu_index |-> CHOOSE k \in mu_indices : TRUE]
        ELSE IF ~IndexOK(mu_index, Len(species))
        THEN [raised |-> "IndexError", species |-> species, mu_index |-> mu_index]
        ELSE [raised |-> "none",
              species |-> [species EXCEPT ![PyIndex(mu_index, Len(species))] = mu_symbol],
              mu_index |-> mu_index]

\* lines 273-280: masses[mu_index] = constants.m_mu_amu
SetMuonMass(n, mu_index) ==
    [k \in 1 .. n |-> IF k = PyIndex(mu_index, n) THEN "m_mu_amu" ELSE "standard"]

\* lines 291-300: the displaced cells; dcell.set_pbc(False) for
\* calculator 'dftb' without dftb_pbc
DisplacedCells(in) ==
    [i \in 1 .. in.n_displ |->
        [name |-> in.sname \o "_displaced_" \o ToString(i - 1),
         pbc |-> IF in.calculator = "dftb" /\ ~in.dftb_pbc THEN FALSE ELSE in.pbc]]

\* lines 311-321: writer_function is bound for 'castep' and 'dftb+' only
WriterFunction(calculator) ==
    IF calculator = "castep" THEN "castep_write_input"
    ELSE IF calculator = "dftb+" THEN "dftb_write_input"
    ELSE "unbound"

\* muon_vibrational_average_write(cell_file, mu_index=..., mu_symbol=...,
\* calculator=..., dftb_pbc=...): the exception raised, the species, the
\* masses, the stored 'muon_index' and the displaced cells saved
muon_vibrational_average_write(in) ==
    LET im == IdentifyMuon(in.species, in.mu_symbol, in.mu_index)
        n == Len(in.species)
        nothing == [raised |-> im.raised, species |-> im.species, masses |-> <<>>,
                    muon_index |-> im.mu_index, saved |-> <<>>,
                    writer |-> "unbound"]
    IN  IF im.raised # "none" THEN nothing
        ELSE IF WriterFunction(in.calculator) = "unbound"
        THEN [nothing EXCEPT !.raised = "UnboundLocalError",
                             !.masses = SetMuonMass(n, im.mu_index)]
        ELSE [nothing EXCEPT !.masses = SetMuonMass(n, im.mu_index),
                             !.saved = DisplacedCells(in),
                             !.writer = WriterFunction(in.calculator)]

\* the species of the cells of up to MaxAtoms atoms
SpeciesLists ==
    UNION {[1 .. n -> {"H", "Si", "H:mu"}] : n \in 1 .. MaxAtoms}

\* what muon_vibrational_average_write is called with
AvgInputs ==
    [sname : {"Si"}, species : SpeciesLists, mu_symbol : {"H:mu", "H"},
     mu_index : -(MaxAtoms + 1) .. MaxAtoms, pbc : {TRUE},
     calculator : {"castep", "dftb+", "dftb"}, dftb_pbc : BOOLEAN,
     n_displ : 1 .. MaxDispl]

InitAvg ==
    /\ inp \in AvgInputs
    /\ st = "Uninitialized"
    /\ eng = NoSelf
    /\ err = "none"
    /\ call = NoCall
    /\ res = NoRes
    /\ out = <<>>
    /\ fs = {}

AvgWrite ==
    /\ call = NoCall
    /\ LET r == muon_vibrational_average_write(inp)
       IN  /\ err' = r.raised
           /\ res' = [species |-> r.species, masses |-> r.masses,
                      muon_index |-> r.muon_index]
           /\ fs' = {[dir |-> inp.sname \o "_displaced", name |-> r.saved[i].name,
                      ext |-> r.writer, pbc |-> r.saved[i].pbc] :
                        i \in DOMAIN r.saved}
    /\ call' = [op |-> "muon_vibrational_average_write"]
    /\ UNCHANGED <<inp, st, eng, out>>

NextAvg == AvgWrite

SpecAvg == InitAvg /\ [][NextAvg]_vars

(* ------------------------------------------------------------------ *)
(* quantum/__main__.py: nq_entry                                      *)
(* ------------------------------------------------------------------ *)
\* the functions quantum/vibrational/programs.py defines, and the names
\* line 13 imports from it
ProgramsDefines == {"vib_avg"}
ProgramsImported == {"muon_harmonic", "vib_avg"}

\* the keys nq_entry reads before the dispatch (lines 33-45) and the keys
\* the call of either calculation reads (lines 48-58), in the order read
ChecksKeys == <<"property", "value_type", "weight">>
CallKeys(calculation_type) ==
    IF calculation_type = "muon_harmonic"
    THEN <<"cell_file", "muon_symbol", "grid_n", "property", "value_type",
           "calculator", "param_file", "ignore_ipsoH", "numerical_solver",
           "ase_phonons", "dftb_phonons">>
    ELSE <<"cell_file", "muon_symbol", "grid_n", "property", "value_type", "weight",
           "calculator", "param_file", "ignore_ipsoH", "numerical_solver",
           "ase_phonons", "dftb_phonons">>

\* params[k] raises KeyError for some key of ks
MissingKey(params, ks) == \E i \in DOMAIN ks : ks[i] \notin DOMAIN params

\* s.strip().lower() on the texts of the model
StripLower(t) ==
    CASE t = " Hyperfine" -> "hyperfine"
      [] t = "Scalar " -> "scalar"
      [] t = "HARMONIC" -> "harmonic"
      [] OTHER -> t

\* lines 33-45: the ValueError checks on property, value_type and weight
ValuesRejected(params) ==
    \/ StripLower(params["property"][2]) # "hyperfine"
    \/ StripLower(params["value_type"][2]) \notin {"scalar", "vector", "matrix"}
    \/ StripLower(params["weight"][2]) # "harmonic"

\* lines 47-61: if 'muon_harmonic' ...; if 'vib_avg' ... else raise: the
\* calculations run and the exception raised
Dispatch(calculation_type, params) ==
    LET first == IF calculation_type = "muon_harmonic"
                 THEN IF MissingKey(params, CallKeys("muon_harmonic"))
                      THEN [raised |-> "KeyError", ran |-> <<>>]
                      ELSE [raised |-> "none", ran |-> <<"muon_harmonic">>]
                 ELSE [raised |-> "none", ran |-> <<>>]
    IN  IF first.raised # "none" THEN first
        ELSE IF calculation_type = "vib_avg"
        THEN IF MissingKey(params, CallKeys("vib_avg"))
             THEN [raised |-> "KeyError", ran |-> first.ran]
             ELSE [raised |-> "none", ran |-> Append(first.ran, "vib_avg")]
        ELSE [raised |-> "RuntimeError: Invalid calculation type", ran |-> first.ran]

\* nq_entry() with the command line 'calculation_type parameter_file':
\* the exception raised, the calculations run, whether the dispatch on
\* calculation_type was reached
nq_entry(in) ==
    LET ld == load_input_file(in.file, MuonHarmonicSchema,
                              [given |-> FALSE, params |-> [kind |-> "None", d |-> <<>>]])
        stop == [raised |-> "none", ran |-> <<>>, dispatched |-> FALSE]
    IN  IF ld.raised # "none" THEN [stop EXCEPT !.raised = ld.raised]
        ELSE IF MissingKey(ld.ret.d, ChecksKeys) THEN [stop EXCEPT !.raised = "KeyError"]
        ELSE IF ValuesRejected(ld.ret.d) THEN [stop EXCEPT !.raised = "ValueError"]
        ELSE LET dp == Dispatch(in.calculation_type, ld.ret.d)
             IN  [raised |-> dp.raised, ran |-> dp.ran, dispatched |-> TRUE]

\* python -m pymuonsuite.quantum: the import of line 13, then nq_entry()
RunMain(in) ==
    IF ~(ProgramsImported \subseteq ProgramsDefines)
    THEN [raised |-> "ImportError", ran |-> <<>>, dispatched |-> FALSE]
    ELSE nq_entry(in)

\* a parameter file with the keys nq_entry reads
NqParamFile ==
    [kind |-> "map",
     d |-> ("cell_file" :> <<"str", "Si.cell">>)
           @@ ("property" :> <<"str", " Hyperfine">>)
           @@ ("value_type" :> <<"str", "Scalar ">>)
           @@ ("weight" :> <<"str", "HARMONIC">>)
           @@ ("muon_symbol" :> <<"str", "H:mu">>)
           @@ ("grid_n" :> <<"int", "20">>)
           @@ ("calculator" :> <<"str", "castep">>)
           @@ ("param_file" :> <<"str", "Si.param">>)
           @@ ("ignore_ipsoH" :> <<"bool", "False">>)
           @@ ("numerical_solver" :> <<"bool", "False">>)
           @@ ("ase_phonons" :> <<"bool", "False">>)
           @@ ("dftb_phonons" :> <<"bool", "True">>)]

\* the command lines: a calculation type, -w or not, a parameter file
NqInputs ==
    [calculation_type : {"muon_harmonic", "vib_avg", "average"}, w : BOOLEAN,
     file : FileContents \cup {NqParamFile}]

InitNq ==
    /\ inp \in NqInputs
    /\ st = "Uninitialized"
    /\ eng = NoSelf
    /\ err = "none"
    /\ call = NoCall
    /\ res = NoRes
    /\ out = <<>>
    /\ fs = {}

NqEntry ==
    /\ call = NoCall
    /\ LET r == RunMain(inp)
       IN  /\ err' = r.raised
           /\ res' = [ran |-> r.ran, dispatched |-> r.dispatched]
    /\ call' = [op |-> "nq_entry"]
    /\ UNCHANGED <<inp, st, eng, out, fs>>

NextNq == NqEntry

SpecNq == InitNq /\ [][NextNq]_vars

(* ------------------------------------------------------------------ *)
(* properties                                                         *)
(* ------------------------------------------------------------------ *)
Constructed == st # "Uninitialized"
Ready == st = "Ready"
Called == st = "Ready" /\ call # NoCall
GoodCall == Called /\ call.p \in GoodArgs
BadCall == Called /\ call.p \in BadArgs
FieldOps == {"rho", "V", "dV", "d2V"}
\* the table the constructor has when it looks the species up
Ppots == LoadPpots(inp).ppots
AllFound == \A i \in 1 .. Len(inp.elems) : inp.elems[i] \in DOMAIN Ppots
\* the total ionic charge of the structure
SumQ == SumSeq([i \in 1 .. Len(inp.elems) |-> Ppots[inp.elems[i]][1]])
\* the sum of the density grid as read, and the denominator of its mean
RawSum == SumInt(inp.data[1], NVox(inp.grid))
RawDen == NVox(inp.grid) * inp.unit
GateRaised == st = "NoInstance" /\ err = "NotNeutral"

\* C1: chunking invariance: a call of rho, V, dV or d2V on a list of N
\* points with any batch size returns what the same call returns with one
\* chunk of N points and with N chunks of one point; the slices cover every
\* index exactly once, and the value at index i is the value of the i-th
\* point evaluated alone.
C1_ChunkingInvariance ==
    (GoodCall /\ call.op \in FieldOps) =>
        LET N == Len(call.p.pts)
            sl == make_process_slices(N, call.B)
        IN  /\ err = "none"
            /\ res = Apply(eng, call.op, call.p, FALSE, N).ret
            /\ res = Apply(eng, call.op, call.p, FALSE, 1).ret
            /\ \A i \in 0 .. N - 1 :
                   Cardinality({k \in 1 .. Len(sl) : sl[k][1] <= i /\ i < sl[k][2]}) = 1
            /\ \A i \in 1 .. N :
                   LET one == Apply(eng, call.op,
                                    [shape |-> <<3>>, pts |-> <<call.p.pts[i]>>],
                                    FALSE, call.B).ret
                   IN  /\ res.total[i] = one.total[1]
                       /\ res.elec[i] = one.elec[1]
                       /\ res.ion[i] = one.ion[1]

\* a call on several distinct points cut into more than one chunk, with
\* different values at the first two points
C1_Witness ==
    /\ GoodCall /\ call.op \in FieldOps /\ err = "none"
    /\ Len(call.p.pts) >= 2 /\ call.B < Len(call.p.pts)
    /\ res.total[1] # res.total[2]

\* C2: at every point and for every component of the value, the total
\* returned by rho, V, dV and d2V is the electronic part plus the ionic part.
C2_TotalIsSum ==
    (GoodCall /\ call.op \in FieldOps) =>
        /\ err = "none"
        /\ res.unit # "unspecified"
        /\ \A i \in 1 .. Len(call.p.pts) :
               \A c \in DOMAIN res.total[i] :
                   res.total[i][c] = RAdd(res.elec[i][c], res.ion[i][c])

\* a call whose electronic and ionic parts are both non-zero at a point
C2_Witness ==
    /\ GoodCall /\ call.op \in FieldOps /\ err = "none"
    /\ \E i \in 1 .. Len(call.p.pts) : \E c \in DOMAIN res.total[i] :
           /\ res.elec[i][c].n # 0
           /\ res.ion[i][c].n # 0
           /\ res.total[i][c].n # 0

\* |mean - sum(q)| > 1e-8 + 1e-4 |sum(q)| for the mean of the grid as read
MeanOffCharge ==
    Abs(RawSum - SumQ * RawDen) * ((ATolInv \div RTolInv) \div inp.unit)
        > (NVox(inp.grid) * (1 + (ATolInv \div RTolInv) * SumQ)) \div RTolInv

\* |mean + sum(q)/vol| > 1e-4 |sum(q)/vol| for the mean of the grid as read
MeanOffMinusChargeDensity ==
    Abs(RawSum * Volume(inp.L) + SumQ * RawDen) > (SumQ * RawDen) \div RTolInv

\* C3 as stated: with every pseudopotential found, the neutrality error is
\* raised exactly when the mean of the density grid deviates from
\* -(total ionic charge)/volume by more than 1e-4 relative.
C3_GateAgainstChargeDensity ==
    (Constructed /\ AllFound) => (GateRaised <=> MeanOffMinusChargeDensity)

\* C3: with every pseudopotential found, construction raises the neutrality
\* error and yields no object exactly when the mean of the density grid as
\* read differs from the total ionic charge sum(q) by more than
\* 1e-8 + 1e-4 |sum(q)|; otherwise the object is built.
C3_NeutralityGate ==
    (Constructed /\ AllFound) =>
        /\ (GateRaised /\ eng = NoSelf) <=> MeanOffCharge
        /\ Ready <=> ~MeanOffCharge

\* the gate raised on a grid just outside the tolerance
C3_Witness ==
    /\ GateRaised /\ AllFound
    /\ inp.unit = RTolInv
    /\ Abs(RawSum - SumQ * RawDen) = NVox(inp.grid) * (SumQ + 1)

\* C4 as stated: the mean of the stored density is -(total ionic
\* charge)/volume within 1e-4 relative, whatever the volume and the grid.
C4_MeanIsChargeOverVolume ==
    Ready =>
        LET N == NVox(eng.grid)
        IN  Abs(SumInt(eng.rho, N) * eng.vol + SumQ * eng.rhoD * N) * RTolInv
                <= SumQ * eng.rhoD * N

\* C4: the mean of the stored density is -(total ionic charge)/(number of
\* voxels): the stored grid sums to -sum(q), whatever the volume.
C4_MeanIsChargeOverVoxels ==
    Ready =>
        LET N == NVox(eng.grid)
        IN  Rat(SumInt(eng.rho, N), eng.rhoD * N) = Rat(-SumQ, N)

\* an object whose cell volume is not its number of voxels, built from a
\* density that is not uniform
C4_Witness ==
    /\ Ready
    /\ eng.vol # NVox(eng.grid)
    /\ eng.rho[0] # eng.rho[NVox(eng.grid) - 1]

\* C5: the G=0 coefficient of the electronic density is -sum(q), that of the
\* ionic density is sum(q), and the two cancel.
C5_ChargeCancels ==
    Ready =>
        /\ eng.rhoe_G[0] = <<-SumQ * eng.rhoD, 0>>
        /\ eng.rhoi_G[0] = <<SumQ * eng.rhoiD, 0>>
        /\ eng.rhoe_G[0][1] * eng.rhoiD + eng.rhoi_G[0][1] * eng.rhoD = 0

\* an object of two ions built from a density that had to be rescaled
C5_Witness ==
    /\ Ready
    /\ Len(inp.elems) = 2
    /\ RawSum # SumQ * RawDen
    /\ eng.rhoi_G[0][1] > 0

\* C6: a species without an entry in the pseudopotential table makes
\* construction end with the pseudopotential error and no object; with every
\* species in the table that error is not raised.
C6_MissingPpot ==
    Constructed =>
        LET missing == \E i \in 1 .. Len(inp.elems) : inp.elems[i] \notin DOMAIN Ppots
        IN  /\ missing => (st = "NoInstance" /\ err = "PpotsNotFound" /\ eng = NoSelf)
            /\ ~missing => ~(st = "NoInstance" /\ err = "PpotsNotFound")

\* construction ended by the pseudopotential error for a structure whose
\* first species is in the table and whose second is not, on a grid that
\* would not pass the neutrality gate either
C6_Witness ==
    /\ st = "NoInstance" /\ err = "PpotsNotFound"
    /\ Len(inp.elems) = 2
    /\ inp.elems[1] \in DOMAIN Ppots
    /\ inp.elems[2] \notin DOMAIN Ppots

\* C7 as stated: on an object without spin data every call of Hfine fails
\* with the error 'Can not compute hyperfine tensor without spin polarised
\* electronic density' and returns nothing.
C7_HfineNoSpinError ==
    (Called /\ call.op = "Hfine" /\ ~eng.spinpol) =>
        (err = "NoSpinError" /\ res = NoRes)

\* C8 as stated: on an object with spin data Hfine on a point or a list of
\* points ends without error and returns one 3x3 tensor per point, and the
\* contact term changes the diagonal entries only, all three by one amount.
C8_HfineWithSpin ==
    (GoodCall /\ call.op = "Hfine" /\ eng.spinpol) =>
        /\ err = "none"
        /\ Len(res.HT) = Len(call.p.pts)
        /\ LET N == Len(call.p.pts)
               plain == Hfine(eng, call.p, FALSE, N).ret.HT
               full == Hfine(eng, call.p, TRUE, N).ret.HT
           IN  \A i \in 1 .. N :
                   /\ \A c \in {2, 3, 4, 6, 7, 8} : full[i][c] = plain[i][c]
                   /\ \E f \in {RAdd(full[i][1], [n |-> -plain[i][1].n, d |-> plain[i][1].d])} :
                          \A c \in {1, 5, 9} : full[i][c] = RAdd(plain[i][c], f)

\* C9 as stated: every evaluator, Hfine on an object with spin data
\* included, returns the three arrays total, electronic and ionic.
C9_ThreeComponents ==
    (GoodCall /\ (call.op = "Hfine" => eng.spinpol)) =>
        /\ err = "none"
        /\ {"total", "elec", "ion"} \subseteq DOMAIN res

\* C10 as stated: every evaluator called with an argument that is neither a
\* 3-vector nor a sequence of 3-vectors fails with an error about the shape
\* of the argument and returns nothing.
C10_BadShapeError ==
    BadCall => (err \in {"IndexError", "ValueError"} /\ res = NoRes)

\* C11: on every object built the G=0 entry, index (0,0,0), of the
\* electronic potential field, of the ionic potential field and, with spin
\* data, of every component of the dipolar field is zero; the safe |G| used
\* as divisor is infinite at index (0,0,0) and is |G| at every other index.
C11_ZeroAtG0 ==
    Ready =>
        LET N == NVox(eng.grid)
        IN  /\ eng.Ve_G[0] = <<0, 0>>
            /\ eng.Vi_G[0] = <<0, 0>>
            /\ eng.spinpol =>
                   \A ab \in (1 .. 3) \X (1 .. 3) : eng.dip_G[ab][0] = <<0, 0>>
            /\ eng.g_grid[0] = <<0, 0, 0>>
            /\ Gnorm_fixed2(eng.g_grid, 0).inf
            /\ \A v \in 1 .. N - 1 :
                   /\ ~Gnorm_fixed2(eng.g_grid, v).inf
                   /\ Gnorm_fixed2(eng.g_grid, v).sq = Gnorm2(eng.g_grid, v)
                   /\ Gnorm2(eng.g_grid, v) > 0

\* an object with spin data whose densities and spin density have non-zero
\* G=0 coefficients and whose potential fields are not zero everywhere
C11_Witness ==
    /\ Ready /\ eng.spinpol
    /\ eng.rhoe_G[0] # <<0, 0>> /\ eng.rhoi_G[0] # <<0, 0>>
    /\ eng.spin_G[0] # <<0, 0>>
    /\ \E v \in 1 .. NVox(eng.grid) - 1 :
           /\ eng.Ve_G[v] # <<0, 0>>
           /\ eng.Vi_G[v] # <<0, 0>>
           /\ \E ab \in (1 .. 3) \X (1 .. 3) : eng.dip_G[ab][v] # <<0, 0>>

\* C12: once the object is built, no call of an evaluator, whatever its
\* arguments and whether it returns or raises, changes a field of the
\* object or the files it was built from; the array the caller passed is
\* the same after the call, and the same call made again returns or raises
\* the same.
C12_ReadOnly ==
    [][st = "Ready" =>
          /\ st' = "Ready"
          /\ eng' = eng
          /\ inp' = inp
          /\ (call # NoCall /\ call' # NoCall) =>
                 /\ call'.p = call.p
                 /\ call'.op = call.op /\ call'.B = call.B
                 /\ call'.contact = call.contact
                 /\ res' = res
                 /\ err' = err]_vars

\* a call of rho on a list of points made a second time after it returned
C12_Witness ==
    /\ Called /\ call.n = 2
    /\ call.op = "rho"
    /\ err = "none"
    /\ Len(call.p.pts) >= 2
    /\ eng.vol # 1

\* the attributes __init__ sets on every object, and those of the spin block
CoreFields ==
    {"grid", "g_grid", "vol", "rho", "rhoe_G", "Ve_G", "rhoi_G", "Vi_G", "spinpol"}
SpinOnlyFields == {"spin", "spin_G", "dip_G"}
\* the attributes each evaluator reads
Required(op) ==
    CASE op = "rho" -> {"g_grid", "rhoe_G", "rhoi_G", "vol"}
      [] op \in {"V", "dV", "d2V"} -> {"g_grid", "Ve_G", "Vi_G"}
      [] OTHER -> {"spinpol", "g_grid", "dip_G", "spin_G", "spin", "vol"}

\* C13: the object is either not built yet or Ready; a construction ends
\* Ready with every field set, or raises and leaves no object; Ready is
\* never left; and no call of an evaluator returns from an object that
\* lacks a field the evaluator reads.
C13_TwoStates ==
    /\ [](/\ st \in {"Uninitialized", "Ready", "NoInstance"}
          /\ st = "Ready" =>
                 /\ err \notin {"PpotsNotFound", "NotNeutral"}
                 /\ CoreFields \subseteq DOMAIN eng
                 /\ eng.spinpol => SpinOnlyFields \subseteq DOMAIN eng
          /\ st # "Ready" => (eng = NoSelf /\ call = NoCall /\ res = NoRes)
          /\ st = "NoInstance" => err \in {"PpotsNotFound", "NotNeutral"}
          /\ Called =>
                 \/ Required(call.op) \subseteq DOMAIN eng
                 \/ err # "none" /\ res = NoRes)
    /\ [][/\ st = "Ready" => st' = "Ready"
          /\ st = "NoInstance" => st' = "NoInstance"]_vars

\* a construction that raised at the neutrality check, after the reciprocal
\* grid had been set, for a density with a spin channel
C13_Witness ==
    /\ st = "NoInstance" /\ err = "NotNeutral"
    /\ Len(inp.data) = 2
    /\ eng = NoSelf

\* C14: the spin density, its transform and the dipolar field are on the
\* object, and has_spin is true, exactly when the density read has a second
\* channel; with one channel none of them exists and has_spin is false.
C14_SpinIffSecondChannel ==
    Ready =>
        /\ has_spin(eng) <=> Len(inp.data) = 2
        /\ has_spin(eng) = eng.spinpol
        /\ has_spin(eng) =>
               /\ SpinOnlyFields \subseteq DOMAIN eng
               /\ eng.spin = inp.data[2]
               /\ eng.spin_G =
                      fftn(eng.grid, [v \in 0 .. NVox(eng.grid) - 1 |-> <<eng.spin[v], 0>>])
        /\ ~has_spin(eng) => SpinOnlyFields \cap DOMAIN eng = {}

\* an object built from a density with two channels, with a dipolar field
\* that is not zero
C14_Witness ==
    /\ Ready /\ Len(inp.data) = 2 /\ has_spin(eng)
    /\ \E v \in 1 .. NVox(eng.grid) - 1 : eng.dip_G[<<1, 1>>][v] # <<0, 0>>

\* the position of voxel u of the grid, in units of L/4
VoxelPoint(grid, u) ==
    <<Unravel(grid, u)[1] * (4 \div grid[1]),
      Unravel(grid, u)[2] * (4 \div grid[2]),
      Unravel(grid, u)[3] * (4 \div grid[3])>>

\* C15: the reciprocal grid has one entry per voxel of the density grid,
\* its entry at index (0,0,0) is G=0, and along an axis of n points the
\* integer frequency at index i is i for i < ceil(n/2) and i - n otherwise,
\* which is the frequency of the density transform: it is i modulo n, and
\* the Fourier sum over the grid gives the stored density back at every
\* voxel.  (G . a_j = 2 pi times that frequency is how the model holds G.)
C15_FFTFrequencies ==
    /\ \A n \in 1 .. MaxAxis : \A i \in 0 .. n - 1 :
           fftfreq(i, n) = IF 2 * i < n THEN i ELSE i - n
    /\ Ready =>
           LET N == NVox(eng.grid)
           IN  /\ DOMAIN eng.g_grid = DOMAIN eng.rho
               /\ DOMAIN eng.g_grid = 0 .. N - 1
               /\ eng.g_grid[0] = <<0, 0, 0>>
               /\ \A v \in 0 .. N - 1 : \A j \in 1 .. 3 :
                      LET i == Unravel(eng.grid, v)[j]
                          n == eng.grid[j]
                          f == eng.g_grid[v][j]
                      IN  /\ f = IF 2 * i < n THEN i ELSE i - n
                          /\ (f - i) % n = 0
               /\ \A u \in 0 .. N - 1 :
                      ReSum(eng.rhoe_G, eng.g_grid, N, VoxelPoint(eng.grid, u), 0,
                            LAMBDA v : 1) = N * eng.rho[u]

\* an object on the grid of four points along x whose density has a
\* non-zero coefficient at a negative frequency
C15_Witness ==
    /\ Ready /\ eng.grid = <<4, 2, 2>>
    /\ \E v \in 0 .. NVox(eng.grid) - 1 :
           /\ eng.g_grid[v][1] = -2
           /\ eng.rhoe_G[v] # <<0, 0>>

\* integer combinations of the lattice vectors, in units of the lattice
LatticeShifts ==
    {<<1, 0, 0>>, <<0, -1, 0>>, <<0, 0, 2>>, <<-1, 1, 0>>, <<1, 1, -1>>, <<-2, 0, 1>>}

\* the points moved by R lattice vectors: the side of the cell is 4 units
Shifted(p, R) ==
    [p EXCEPT !.pts = [i \in DOMAIN p.pts |->
                          <<p.pts[i][1] + 4 * R[1], p.pts[i][2] + 4 * R[2],
                            p.pts[i][3] + 4 * R[3]>>]]

\* C16: periodicity: V at the points moved by an integer combination of the
\* lattice vectors returns what V returns at the points, total, electronic
\* and ionic.
C16_Periodic ==
    (GoodCall /\ call.op = "V") =>
        /\ err = "none"
        /\ \A R \in LatticeShifts :
               LET r == V(eng, Shifted(call.p, R), call.B)
               IN  /\ r.raised = "none"
                   /\ r.ret = res

\* a call of V that returned a potential that is not zero and not the same
\* at two points
C16_Witness ==
    /\ GoodCall /\ call.op = "V" /\ err = "none"
    /\ Len(call.p.pts) = 2
    /\ res.total[1][1].n # 0
    /\ res.elec[1][1] # res.elec[2][1]
    /\ res.ion[1][1] # res.ion[2][1]

\* C17: every 3x3 tensor that d2V returns, total, electronic and ionic, is
\* symmetric at every point.
C17_HessianSymmetric ==
    (GoodCall /\ call.op = "d2V") =>
        /\ err = "none"
        /\ \A i \in 1 .. Len(call.p.pts) : \A a \in 1 .. 3 : \A b \in 1 .. 3 :
               /\ res.total[i][3 * (a - 1) + b] = res.total[i][3 * (b - 1) + a]
               /\ res.elec[i][3 * (a - 1) + b] = res.elec[i][3 * (b - 1) + a]
               /\ res.ion[i][3 * (a - 1) + b] = res.ion[i][3 * (b - 1) + a]

\* a call of d2V that returned a tensor with a non-zero entry off the
\* diagonal and two different entries on it
C17_Witness ==
    /\ GoodCall /\ call.op = "d2V" /\ err = "none"
    /\ \E i \in 1 .. Len(call.p.pts) :
           /\ res.total[i][2].n # 0
           /\ res.total[i][1] # res.total[i][5]

\* a file the constructor tries to read and cannot
CellUnreadable == ~inp.cell.readable
PpotFileUnreadable ==
    /\ inp.cell.readable
    /\ \E i \in 1 .. Len(inp.cell.species_pot) :
           ~inp.files[inp.cell.species_pot[i]].readable

\* C18 as stated: a .cell file or a pseudopotential file it names that
\* cannot be read ends construction with that error; construction never
\* goes on with the remaining data.
C18_ReadErrorsSurface ==
    (Constructed /\ (CellUnreadable \/ PpotFileUnreadable)) =>
        (st = "NoInstance" /\ err = "IOError")

\* C18: an IOError on the .cell file is ignored, and an IOError on a
\* pseudopotential file it names only prints a warning; construction goes
\* on with the table collected from the .castep file and the readable
\* files, and ends with the pseudopotential error exactly when a species of
\* the structure has no entry in that table.  The errors the constructor
\* raises itself leave no object.
C18_UnreadableFilesSkipped ==
    Constructed =>
        /\ err # "IOError"
        /\ CellUnreadable => (Ppots = inp.castep /\ out = <<>>)
        /\ inp.cell.readable =>
               /\ \A i \in 1 .. Len(inp.cell.species_pot) :
                      LET f == inp.cell.species_pot[i]
                      IN  IF inp.files[f].readable
                          THEN \A el \in DOMAIN inp.files[f].table :
                                   el \in DOMAIN Ppots
                          ELSE \E k \in 1 .. Len(out) : out[k] = f
               /\ \A k \in 1 .. Len(out) : ~inp.files[out[k]].readable
        /\ (st = "NoInstance" /\ err = "PpotsNotFound") <=> ~AllFound
        /\ err \in {"PpotsNotFound", "NotNeutral"} => (st = "NoInstance" /\ eng = NoSelf)

\* an object built although a pseudopotential file named in the .cell file
\* could not be read
C18_Witness ==
    /\ Ready
    /\ PpotFileUnreadable
    /\ out # <<>>

\* the mean of the density after the rescale, as a fraction in lowest terms
RescaledMean ==
    LET N == NVox(inp.grid)
        nrm == Normalise(inp.data[1], N, SumQ)
    IN  Rat(SumInt(nrm.num, N), nrm.den * N)

\* C19 as stated: the rescale comes before the comparison, so the
\* neutrality error is raised exactly when the mean of the rescaled density
\* is not within tolerance of the total ionic charge.
C19_GateOnRescaledDensity ==
    (Constructed /\ AllFound) =>
        (GateRaised <=> ~isclose(RescaledMean.n, RescaledMean.d, SumQ))

\* C19: the comparison comes first and sees the density as read: the
\* neutrality error is raised exactly when the mean of the raw grid is not
\* within tolerance of sum(q), and then nothing is rescaled or kept; when it
\* passes, the stored density is the raw one times -sum(q)/sum(raw), which
\* is applied once (its mean is then -sum(q)/Nvoxels, far from sum(q)).
C19_GateBeforeRescale ==
    (Constructed /\ AllFound) =>
        /\ GateRaised <=> ~isclose(RawSum, RawDen, SumQ)
        /\ GateRaised => eng = NoSelf
        /\ Ready =>
               /\ \A v \in 0 .. NVox(inp.grid) - 1 :
                      eng.rho[v] * RawSum = -SumQ * inp.data[1][v] * eng.rhoD
               /\ ~isclose(RescaledMean.n, RescaledMean.d, SumQ)

\* an object built from a density within the tolerance of the gate but not
\* exactly neutral, so that the rescale changed it
C19_Witness ==
    /\ Ready
    /\ inp.unit = RTolInv
    /\ RawSum # SumQ * RawDen
    /\ \E v \in 0 .. NVox(inp.grid) - 1 :
           eng.rho[v] * inp.unit # -inp.data[1][v] * eng.rhoD

\* load_input_file has returned or raised
Loaded == call # NoCall /\ call.op = "load_input_file"
\* the parameter set the file stands for: the file's values over the merge
\* values; None when there is no mapping in the file
Overlay ==
    IF inp.file.kind # "map" THEN inp.file
    ELSE IF inp.merge.given
    THEN [kind |-> "map", d |-> DictUpdate(inp.merge.params.d, inp.file.d)]
    ELSE inp.file

\* C20 as stated: load_input_file returns only when the parameters
\* validate against the schema and raises RuntimeError for every violation
\* of the schema; with a merge dict, in what it returns a key of the file
\* has the file's value and a merge key absent from the file has the merge
\* value.
C20_LoadValidatesAndMerges ==
    Loaded =>
        /\ err \in {"none", "RuntimeError"}
        /\ err = "none" => SchemaAccepts(MuonHarmonicSchema, Overlay)
        /\ ~SchemaAccepts(MuonHarmonicSchema, Overlay) => err = "RuntimeError"
        /\ (err = "none" /\ inp.merge.given) =>
               /\ \A k \in DOMAIN inp.file.d : res.d[k] = inp.file.d[k]
               /\ \A k \in DOMAIN inp.merge.params.d \ DOMAIN inp.file.d :
                      res.d[k] = inp.merge.params.d[k]

\* vib_avg has returned or raised
VibCalled == call # NoCall /\ call.op = "vib_avg"
\* the call that has just returned was write mode and wrote the grids
VibWrote == VibCalled /\ call.w /\ err = "none"
\* the structures in the directory write mode makes for atom a
GridOf(a) ==
    {f \in fs : f.ext = "cell" /\ f.dir = WriteDir(inp.sname, inp.method, a)}
\* the displacement at fraction linspace(-1, 1, grid_n)[n] of 3R along the
\* major mode axis
ModeDisp(axis, n) ==
    [along |-> "mode" \o ToString(axis),
     num |-> 3 * linspace(n, inp.grid_n)[1], den |-> linspace(n, inp.grid_n)[2]]
\* the <<directory, grid-point name>> pairs of a set of files
PointNames(files) == {<<f.dir, f.name>> : f \in files}

\* C21 as stated: after vib_avg in write mode with method 'wavefunction',
\* for every selected atom a the grid written for a holds 3*grid_n
\* structures, grid_n along each of the three major modes of a, in which a
\* is displaced from -3R to +3R along that mode and no other atom is
\* displaced.
C21_GridForEachAtom ==
    (VibWrote /\ inp.method = "wavefunction") =>
        \A i \in 1 .. Len(call.sel) :
            LET a == call.sel[i]
            IN  /\ Cardinality(GridOf(a)) = 3 * inp.grid_n
                /\ \A axis \in 0 .. 2, n \in 0 .. inp.grid_n - 1 :
                       \E f \in GridOf(a) :
                           /\ f.disp[a] = ModeDisp(axis, n)
                           /\ \A b \in DOMAIN f.disp \ {a} : f.disp[b].num = 0

\* C22 as stated: vib_avg called with atoms_ind = [-1] selects the atoms
\* 1..num_atoms of the cell, whatever the number of atoms, and goes on
\* with them.
C22_MinusOneSelectsAll ==
    (VibCalled /\ inp.method = "wavefunction" /\ inp.atoms_ind = <<-1>>) =>
        /\ call.sel = arange(1, inp.num_atoms + 1)
        /\ err # "IndexError"

\* C23 as stated: read mode after write mode with the same arguments opens
\* results for exactly the grid points write mode created: every directory
\* and grid-point name it opens is one that was written, and every grid
\* point written is read.
C23_ReadMatchesWrite ==
    (VibCalled /\ ~call.w /\ call.after_write /\ fs # {}) =>
        /\ err = "none"
        /\ PointNames({res.opened[k] : k \in DOMAIN res.opened})
               = PointNames({f \in fs : f.ext = "cell"})

\* muon_vibrational_average_write has returned or raised
AvgCalled == call # NoCall /\ call.op = "muon_vibrational_average_write"
\* the atoms, counted from 1, that carry mu_symbol in a list of species
Carriers(species) == {k \in DOMAIN species : species[k] = inp.mu_symbol}

\* C24: muon_vibrational_average_write raises MuonAverageError when more
\* than one atom's species is mu_symbol; when exactly one is, that atom is
\* the muon whatever mu_index was passed; when none is, the atom at
\* mu_index is relabelled mu_symbol. Whenever it returns, exactly one atom
\* carries mu_symbol, and it is the atom with the muon mass and the atom
\* that the stored 'muon_index' names.
C24_MuonIdentified ==
    AvgCalled =>
        LET n == Len(inp.species)
            found == Carriers(inp.species)
        IN  /\ Cardinality(found) > 1 => err = "MuonAverageError"
            /\ Cardinality(found) = 1 =>
                   /\ err \notin {"MuonAverageError", "IndexError"}
                   /\ res.species = inp.species
                   /\ found = {res.muon_index + 1}
            /\ (Cardinality(found) = 0 /\ err = "none") =>
                   res.species =
                       [inp.species EXCEPT ![PyIndex(inp.mu_index, n)] = inp.mu_symbol]
            /\ err = "none" =>
                   /\ Cardinality(Carriers(res.species)) = 1
                   /\ Carriers(res.species) = {PyIndex(res.muon_index, n)}
                   /\ {k \in 1 .. n : res.masses[k] = "m_mu_amu"}
                          = Carriers(res.species)

\* the symbol found one atom while mu_index named another, and the call
\* returned
C24_Witness ==
    /\ AvgCalled
    /\ err = "none"
    /\ Cardinality(Carriers(inp.species)) = 1
    /\ IndexOK(inp.mu_index, Len(inp.species))
    /\ PyIndex(inp.mu_index, Len(inp.species)) \notin Carriers(inp.species)

\* C27 as stated: with calculator 'dftb+' and dftb_pbc false every
\* displaced cell written has periodic boundary conditions off; with
\* dftb_pbc true or calculator 'castep' no displaced cell's periodic
\* boundary conditions are changed.
C27_DftbPbcOff ==
    (AvgCalled /\ err = "none") =>
        /\ (inp.calculator = "dftb+" /\ ~inp.dftb_pbc) =>
               \A f \in fs : f.pbc = FALSE
        /\ (inp.dftb_pbc \/ inp.calculator = "castep") =>
               \A f \in fs : f.pbc = inp.pbc

\* the program of quantum/__main__.py has run
NqCalled == call # NoCall /\ call.op = "nq_entry"
\* the keys nq_entry reads from the loaded parameters
NqKeysRead ==
    {ChecksKeys[i] : i \in DOMAIN ChecksKeys}
    \cup {CallKeys("vib_avg")[i] : i \in DOMAIN CallKeys("vib_avg")}
\* the parameter file is one the schema accepts
FileAccepted == SchemaAccepts(MuonHarmonicSchema, inp.file)

\* C25 as stated: with a parameter file that loads, nq_entry runs
\* muon_harmonic exactly once for the type 'muon_harmonic' and returns
\* without the 'Invalid calculation type' RuntimeError, runs vib_avg
\* exactly once for 'vib_avg' and returns, and for any other type raises
\* that RuntimeError without running either calculation.
C25_DispatchOnType ==
    (NqCalled /\ FileAccepted) =>
        CASE inp.calculation_type = "muon_harmonic" ->
                 err = "none" /\ res.ran = <<"muon_harmonic">>
          [] inp.calculation_type = "vib_avg" ->
                 err = "none" /\ res.ran = <<"vib_avg">>
          [] OTHER ->
                 err = "RuntimeError: Invalid calculation type" /\ res.ran = <<>>

\* C26 as stated: every key nq_entry reads is a key that validation
\* against MuonHarmonicSchema produces, so for every parameter file the
\* schema accepts nq_entry reaches the dispatch on calculation_type
\* without a missing-key failure.
C26_KeysReadAreSchemaKeys ==
    (NqCalled /\ FileAccepted) =>
        /\ NqKeysRead \subseteq DOMAIN SchemaValidated(MuonHarmonicSchema, inp.file).d
        /\ err # "KeyError"
        /\ res.dispatched

====
